---- MODULE Spec2Model ----
(***************************************************************************)
(* SkillScapes Analytics dashboard (Streamlit).                            *)
(*                                                                         *)
(* Every page is a script that Streamlit runs from top to bottom: it reads *)
(* the sidebar filters, issues GET requests to the backend and renders     *)
(* each section from the response.  The only state that survives a run is  *)
(* the st.cache_data cache of the lookup functions get_occupations and     *)
(* get_regions (ttl=3600).                                                 *)
(*                                                                         *)
(* Two specifications are given over the same definitions:                 *)
(*   Spec       the page runs, one step per section of a page;             *)
(*   SpecCache  the cached lookup calls of the pages, with the clock.      *)
(***************************************************************************)
EXTENDS Integers, Sequences, FiniteSets, TLC

VARIABLES
    now,         \* seconds on the cache's clock
    cache,       \* st.cache_data: cache key -> entry
    nfetch,      \* number of lookup fetches so far
    lastCall,    \* the call of a cached lookup function made by the last step,
                 \* with the request and response of its fetch, if any
    page,        \* the page whose script is running
    pc,          \* position in the script: index into Steps(page)
    date_range,  \* value returned by st.sidebar.date_input
    start_date,  \* module variable start_date of the page
    end_date,    \* module variable end_date of the page
    selected,    \* selected_occupation / selected_region / occupation / ...
    level,       \* level_param / level_param_skills of the lookup of regions
    reqs,        \* requests issued by the last step, in order
    resps,       \* responses received by the last step, in order
    out,         \* what the last step rendered
    called,      \* endpoints requested by the sections of this run so far
    crashed      \* the script stopped with an uncaught exception

cacheVars == <<now, cache, nfetch, lastCall>>
runVars == <<page, pc, date_range, start_date, end_date, selected, level,
             reqs, resps, out, called, crashed>>
vars == <<now, cache, nfetch, lastCall, page, pc, date_range,
          start_date, end_date, selected, level, reqs, resps, out, called,
          crashed>>

---------------------------------------------------------------------------
(* Bounds of the model *)

MaxTicks == 3        \* the clock runs for MaxTicks half-hours
MaxFetches == 2      \* lookup fetches after which no call starts (SpecCache)
MaxLookups == 1      \* lookup fetches after which no page run starts (Spec)
MaxRows == 2         \* longest data list a response carries
MaxDim == 2          \* most rows, columns and labels of a heatmap response

---------------------------------------------------------------------------
(* Python values *)

None == [t |-> "None"]
PyStr(s) == [t |-> "str", v |-> s]
PyList(s) == [t |-> "list", v |-> s]

\* truth value of a Python object in `if x:`
Truthy(x) ==
    CASE x.t = "None" -> FALSE
      [] x.t = "str" -> x.v # <<>>
      [] x.t = "list" -> x.v # <<>>
      [] OTHER -> TRUE

SeqMap(f(_), s) == [i \in 1..Len(s) |-> f(s[i])]

SeqsUpTo(S, n) == UNION {[1..k -> S] : k \in 0..n}

---------------------------------------------------------------------------
(* Dates and strftime("%Y-%m-%d") *)

Date(y, m, d) == [y |-> y, m |-> m, d |-> d]

D1 == Date(2025, 5, 1)
D2 == Date(2025, 11, 24)

Digit(n) == <<"0", "1", "2", "3", "4", "5", "6", "7", "8", "9">>[n + 1]

RECURSIVE Pow10(_)
Pow10(k) == IF k = 0 THEN 1 ELSE 10 * Pow10(k - 1)

\* %Y, %m, %d: decimal number zero-padded to width w
ZeroPadUnpadded(n, w) ==
    IF n < 10 THEN <<Digit(n)>>
    ELSE [i \in 1..w |-> Digit((n \div Pow10(w - i)) % 10)]

ZeroPad(n, w) == [i \in 1..w |-> Digit((n \div Pow10(w - i)) % 10)]

Strftime(date) ==
    ZeroPad(date.y, 4) \o <<"-">> \o ZeroPad(date.m, 2) \o <<"-">>
        \o ZeroPad(date.d, 2)

---------------------------------------------------------------------------
(* Requests and responses *)

NoArg == ""
NoTimeout == None
Seconds(n) == [t |-> "num", v |-> n]
NoParams == <<>>

\* a call of another method of the requests library
Post(endpoint, arg, params, timeout) ==
    [method |-> "POST", endpoint |-> endpoint, arg |-> arg,
     params |-> params, timeout |-> timeout]

\* requests.get(f"{API_BASE_URL}<endpoint>", params=params, timeout=timeout);
\* arg is the value formatted into the path of the endpoint, if any
Get(endpoint, arg, params, timeout) ==
    [method |-> "GET", endpoint |-> endpoint, arg |-> arg,
     params |-> params, timeout |-> timeout]

\* requests.get raised (connection refused, timeout, ...)
Exc == [t |-> "exc"]
\* a response with a status code; body is what response.json() gives
Resp(status, body) == [t |-> "resp", status |-> status, body |-> body]
Json(rec) == [t |-> "json", v |-> rec]
NoJson == [t |-> "invalid"]

\* an item of a response's data list; label stands for the label column of
\* the endpoint (esco_label, region, skill, date, month, category, job_type)
Row(rank, label, total, pct) ==
    [rank |-> rank, label |-> label, total_jobs |-> total, percentage |-> pct]

HasData(r) == r.t = "resp" /\ r.body.t = "json" /\ "data" \in DOMAIN r.body.v

---------------------------------------------------------------------------
(* The backend's lookup lists *)

OccupationRows == <<Row(1, "Nurse", 30, 60), Row(2, "Chef", 10, 20)>>

RegionRows(lvl) ==
    IF lvl = "nuts2"
    THEN <<Row(1, "Attiki", 30, 60), Row(2, "Kriti", 10, 20)>>
    ELSE <<Row(1, "Athens", 30, 60), Row(2, "Chania", 10, 20)>>

Levels == {"nuts2", "regional_unit"}

Catalogue(req) ==
    IF req.endpoint = "/api/regions/jobs"
    THEN RegionRows(req.params.region_level)
    ELSE OccupationRows

LookupModes == {"ok", "empty", "bad", "err", "exc"}

\* what the backend answers to a lookup request in each mode
LookupResponse(mode, req) ==
    CASE mode = "ok" -> Resp(200, Json([data |-> Catalogue(req)]))
      [] mode = "empty" -> Resp(200, Json([data |-> <<>>]))
      [] mode = "bad" -> Resp(200, Json([detail |-> "no data"]))
      [] mode = "err" -> Resp(500, NoJson)
      [] mode = "exc" -> Exc

---------------------------------------------------------------------------
(* The cached lookup functions get_occupations and get_regions *)

TTL == 3600

HalfHour == TTL \div 2

LookupCalls ==
    {<<"Occupations", "get_occupations">>, <<"Regions", "get_regions">>,
     <<"Skills", "get_occupations">>, <<"Skills", "get_regions">>,
     <<"Heatmaps", "get_occupations">>, <<"JobTypes", "get_occupations">>}

\* every get_occupations has the same text
SourceTextOneOccupations(p, fn) ==
    CASE fn = "get_occupations" -> "get_occupations, in a with block"
      [] p = "Regions" -> "get_regions, top level"
      [] OTHER -> "get_regions, in two with blocks"

\* the text of the function definition, decorator and indentation included:
\* the definitions of get_occupations of the Skills, Heatmaps and Job Types
\* pages are the same text
SourceText(p, fn) ==
    CASE fn = "get_occupations" /\ p = "Occupations"
           -> "get_occupations, top level"
      [] fn = "get_occupations" -> "get_occupations, in a with block"
      [] fn = "get_regions" /\ p = "Regions" -> "get_regions, top level"
      [] OTHER -> "get_regions, in two with blocks"

\* st.cache_data identifies a function by its module, its qualified name and
\* its source text; every page script runs as module __main__
FuncKey(p, fn) == <<"__main__", fn, SourceText(p, fn)>>

ArgsOf(fn) == IF fn = "get_regions" THEN {<<l>> : l \in Levels} ELSE {<<>>}

CacheKeys == UNION {{<<FuncKey(c[1], c[2]), a>> : a \in ArgsOf(c[2])} : c \in LookupCalls}

Absent == [t |-> "absent"]
Entry(value, t, req) ==
    [t |-> "entry", value |-> value, storedAt |-> t, req |-> req]

\* the entry never expires
FreshForever(e, t) == e.t = "entry"

\* the entry is served for two hours
FreshTwoHours(e, t) == e.t = "entry" /\ t < e.storedAt + 2 * TTL

\* ttl=3600: an entry is served while it is younger than TTL seconds
Fresh(e, t) == e.t = "entry" /\ t < e.storedAt + TTL

\* the lookup request takes the date range of the page
LookupRequestWithDates(fn, args) ==
    IF fn = "get_regions"
    THEN Get("/api/regions/jobs", NoArg,
             [region_level |-> args[1], top_n |-> 100,
              start_date |-> "2025-05-01", end_date |-> "2025-05-02"],
             NoTimeout)
    ELSE Get("/api/occupations/demand", NoArg,
             [top_n |-> 200, start_date |-> "2025-05-01",
              end_date |-> "2025-05-02"], NoTimeout)

\* the request of the function body
LookupRequest(fn, args) ==
    IF fn = "get_regions"
    THEN Get("/api/regions/jobs", NoArg,
             [region_level |-> args[1], top_n |-> 100], NoTimeout)
    ELSE Get("/api/occupations/demand", NoArg, [top_n |-> 200], NoTimeout)

\* the value the function body returns on response r: the labels on status
\* 200, [] when anything raised, and None (no return statement is reached)
\* on any other status
LookupBody(r) ==
    IF r.t = "exc" THEN PyList(<<>>)
    ELSE IF r.status = 200
         THEN IF HasData(r)
              THEN PyList([i \in 1..Len(r.body.v.data) |-> r.body.v.data[i].label])
              ELSE PyList(<<>>)
         ELSE None

\* one entry for all the levels
CacheKeyOneLevel(p, fn, args) ==
    <<FuncKey(p, fn), IF fn = "get_regions" THEN <<"nuts2">> ELSE args>>

\* the key of a cached value: the function and the arguments of the call
CacheKey(p, fn, args) == <<FuncKey(p, fn), args>>

NoCall ==
    [page |-> "", fn |-> "", args |-> <<>>, hit |-> FALSE, expired |-> FALSE,
     at |-> 0, value |-> None, fetchedAt |-> 0, reqs |-> <<>>,
     resps |-> <<>>]

\* a call of the decorated function fn of page p with arguments args
CachedCall(p, fn, args, mode) ==
    LET key == CacheKey(p, fn, args)
        e == cache[key]
        req == LookupRequest(fn, args)
        rs == LookupResponse(mode, req)
        v == LookupBody(rs)
    IN  IF Fresh(e, now)
        THEN /\ cache' = cache
             /\ nfetch' = nfetch
             /\ lastCall' = [page |-> p, fn |-> fn, args |-> args,
                             hit |-> TRUE, expired |-> FALSE, at |-> now,
                             value |-> e.value, fetchedAt |-> e.storedAt,
                             reqs |-> <<>>, resps |-> <<>>]
        ELSE /\ cache' = [cache EXCEPT ![key] = Entry(v, now, req)]
             /\ nfetch' = nfetch + 1
             /\ lastCall' = [page |-> p, fn |-> fn, args |-> args,
                             hit |-> FALSE, expired |-> e.t = "entry",
                             at |-> now, value |-> v, fetchedAt |-> now,
                             reqs |-> <<req>>, resps |-> <<rs>>]

CanCall(p, fn, args) ==
    Fresh(cache[CacheKey(p, fn, args)], now) \/ nfetch < MaxFetches

---------------------------------------------------------------------------
(* The page scripts: what a run of a page does, section by section *)

Pages == {"Home", "Jobs", "Occupations", "Regions", "Skills", "Heatmaps",
          "JobTypes"}

\* the steps of each script, in the order of the source.  The Job Types
\* script stops in its date filter (see DateFilter), so the steps after
\* it (distribution, categories, get_occupations, by_occupation) never run.
Steps(p) ==
    CASE p = "Home" -> <<"sidebar", "quick_stats">>
      [] p = "Jobs" -> <<"date_filter", "job_count", "top_occupations",
                         "time_series", "monthly_trends">>
      [] p = "Occupations" -> <<"get_occupations", "date_filter", "overview",
                                "time_series", "regional", "skills">>
      [] p = "Regions" -> <<"get_regions", "date_filter", "comparison",
                            "job_types", "occupations", "time_series",
                            "skills">>
      [] p = "Skills" -> <<"date_filter", "top_skills", "get_occupations",
                           "by_occupation", "get_regions", "by_region">>
      [] p = "Heatmaps" -> <<"date_filter", "occupations_regions",
                             "get_occupations", "skills_regions">>
      [] p = "JobTypes" -> <<"date_filter", "distribution", "categories",
                             "get_occupations", "by_occupation">>

Done(p) == Len(Steps(p)) + 1

AtStep(p, s) == page = p /\ pc \in 1..Len(Steps(p)) /\ Steps(p)[pc] = s

Running == pc \in 1..Len(Steps(page))

\* what a section put on the page
NoTable == [t |-> "none"]
Table(rows) == [t |-> "table", rows |-> rows]

Blank(sec) ==
    [section |-> sec, error |-> FALSE, notice |-> "none", charts |-> {},
     table |-> NoTable, metrics |-> None, heatmap |-> None, growth |-> None]

\* except Exception as e: st.error(f"Error: {e}")
Error(sec) == [Blank(sec) EXCEPT !.error = TRUE]

\* the data lists the backend may answer with
DataRows == {Row(1, "a", 30, 60), Row(2, "b", 0, 0), Row(3, "c", 30, 40)}

\* a data list has one item per label
DataLists ==
    {d \in SeqsUpTo(DataRows, MaxRows) :
        \A i, j \in 1..Len(d) : i # j => d[i].label # d[j].label}

Failures == {Exc, Resp(500, NoJson), Resp(200, Json([detail |-> "no data"]))}

ListResponses == Failures \cup {Resp(200, Json([data |-> d])) : d \in DataLists}

AllColumns == {"rank", "label", "total_jobs", "percentage"}

\* df[cols]: every row of the frame, in order, restricted to cols
Project(d, cols) == [i \in 1..Len(d) |-> [c \in cols |-> d[i][c]]]

\* a section whose handler drops the exception of the request (except: pass)
ListSectionSilent(sec, r, guarded, charts, cols) ==
    IF r.t = "exc" THEN Blank(sec)
    ELSE IF r.status # 200 THEN Blank(sec)
    ELSE IF ~HasData(r) THEN Error(sec)
    ELSE IF r.body.v.data = <<>>
         THEN IF guarded THEN Blank(sec) ELSE Error(sec)
         ELSE [Blank(sec) EXCEPT
                  !.charts = charts,
                  !.table = IF cols = {} THEN NoTable
                            ELSE Table(Project(r.body.v.data, cols))]

\* a section of the shape
\*   try: response = requests.get(...)
\*        if response.status_code == 200:
\*            df = pd.DataFrame(response.json()['data'])
\*            [if not df.empty:]  charts; [st.dataframe(df[cols])]
\*   except Exception as e: st.error(...)
\* guarded: the section tests df.empty; cols: the columns of its table, {}
\* when it has none.  Without the guard the chart of an empty frame raises
\* (the frame has no column to plot).
ListSection(sec, r, guarded, charts, cols) ==
    IF r.t = "exc" THEN Error(sec)
    ELSE IF r.status # 200 THEN Blank(sec)
    ELSE IF ~HasData(r) THEN Error(sec)
    ELSE IF r.body.v.data = <<>>
         THEN IF guarded THEN Blank(sec) ELSE Error(sec)
         ELSE [Blank(sec) EXCEPT
                  !.charts = charts,
                  !.table = IF cols = {} THEN NoTable
                            ELSE Table(Project(r.body.v.data, cols))]

\* {"start_date": start_date, "end_date": end_date}
DateParams(sd, ed) == [start_date |-> sd.v, end_date |-> ed.v]

\* if start_date and end_date: params.update({...})
WithDates(params) ==
    IF Truthy(start_date) /\ Truthy(end_date)
    THEN params @@ DateParams(start_date, end_date)
    ELSE params

\* a step that issued the requests rq, received rs and rendered o
Emit(rq, rs, o) ==
    /\ reqs' = rq
    /\ resps' = rs
    /\ out' = o
    /\ called' = called \cup {rq[i].endpoint : i \in 1..Len(rq)}
    /\ pc' = pc + 1
    /\ lastCall' = NoCall
    /\ UNCHANGED <<page, date_range, start_date, end_date, selected, level,
                   crashed>>
    /\ UNCHANGED <<now, cache, nfetch>>

\* the user opens a page (or the page reruns): the script starts from the top
StartRun ==
    /\ pc = 0 \/ pc = Done(page)
    /\ nfetch < MaxLookups
    /\ \E p \in Pages : page' = p
    /\ pc' = 1
    /\ date_range' = None
    /\ start_date' = None
    /\ end_date' = None
    /\ selected' = ""
    /\ level' = ""
    /\ reqs' = <<>>
    /\ resps' = <<>>
    /\ out' = Blank("")
    /\ called' = {}
    /\ crashed' = FALSE
    /\ lastCall' = NoCall
    /\ UNCHANGED <<now, cache, nfetch>>

---------------------------------------------------------------------------
(* The date filter of the six pages *)

DatePages == {"Jobs", "Occupations", "Regions", "Skills", "Heatmaps",
              "JobTypes"}

PyTuple(s) == [t |-> "tuple", v |-> s]
PyDate(d) == [t |-> "date", v |-> d]

\* what st.sidebar.date_input returns.  Given a pair as value (Jobs,
\* Occupations, Regions, Skills, Heatmaps) the widget is a range picker and
\* returns a tuple: the pair, or one date while the user has picked only the
\* start.  Given a single datetime as value (Job Types) it is a single-date
\* picker and returns a date, not a tuple.
DateInputValues(p) ==
    IF p = "JobTypes"
    THEN {PyDate(D1), PyDate(D2)}
    ELSE {PyTuple(<<D1>>), PyTuple(<<D1, D2>>)}

\* len(date_range) is defined for a tuple only; on a date it raises TypeError
HasLen(v) == v.t = "tuple"

\* st.sidebar.date_input(...) and the if len(date_range) == 2: ... else: ...
\* that follows it.  The statement is outside every try block.
DateFilter ==
    /\ page \in DatePages
    /\ AtStep(page, "date_filter")
    /\ \E v \in DateInputValues(page) :
         /\ date_range' = v
         /\ IF HasLen(v)
            THEN /\ IF Len(v.v) = 2
                    THEN /\ start_date' = PyStr(Strftime(v.v[1]))
                         /\ end_date' = PyStr(Strftime(v.v[2]))
                    ELSE /\ start_date' = None
                         /\ end_date' = None
                 /\ pc' = pc + 1
                 /\ crashed' = FALSE
            ELSE /\ UNCHANGED <<start_date, end_date>>
                 /\ pc' = Done(page)
                 /\ crashed' = TRUE
    /\ reqs' = <<>>
    /\ resps' = <<>>
    /\ out' = Blank("date_filter")
    /\ lastCall' = NoCall
    /\ UNCHANGED <<page, selected, level, called>>
    /\ UNCHANGED <<now, cache, nfetch>>

---------------------------------------------------------------------------
(* Home page (app.py) *)

HealthRequest == Get("/health", NoArg, NoParams, Seconds(5))

HealthResponses == {Exc, Resp(500, NoJson), Resp(200, NoJson)}

\* a probe that takes every answer of the server for a connection
CheckApiConnectionAnyStatus(r) == r.t = "resp"

\* check_api_connection(): True on status 200, False on any other status
\* and on every exception
CheckApiConnection(r) == r.t = "resp" /\ r.status = 200

\* with st.sidebar: if check_api_connection(): st.success(...) else: ...
HomeSidebar ==
    /\ AtStep("Home", "sidebar")
    /\ \E r \in HealthResponses :
         Emit(<<HealthRequest>>, <<r>>,
              [Blank("sidebar") EXCEPT
                  !.notice = IF CheckApiConnection(r) THEN "Connected"
                             ELSE "Disconnected"])

QuickStatRequests ==
    <<Get("/api/jobs/count", NoArg, NoParams, NoTimeout),
      Get("/api/occupations/demand", NoArg, [top_n |-> 100], NoTimeout),
      Get("/api/regions/jobs", NoArg,
          [region_level |-> "nuts2", top_n |-> 100], NoTimeout),
      Get("/api/skills/top", NoArg, [top_n |-> 100], NoTimeout)>>

QuickStatResponses ==
    {Exc, Resp(500, NoJson), Resp(200, NoJson),
     Resp(200, Json([total_jobs |-> 5, count |-> 7]))}

\* the request raised, or response.json() did: the one try block of the
\* quick stats is left (except: pass)
Raises(r) ==
    IF r.t = "exc" THEN TRUE ELSE r.status = 200 /\ r.body.t # "json"

\* if check_api_connection(): the four quick-stat requests in one try block.
\* The status that the sidebar step showed stays on the page (notice).
HomeQuickStats ==
    /\ AtStep("Home", "quick_stats")
    /\ \E h \in HealthResponses :
         IF ~CheckApiConnection(h)
         THEN Emit(<<HealthRequest>>, <<h>>,
                   [Blank("quick_stats") EXCEPT !.notice = out.notice])
         ELSE \E rs \in SeqsUpTo(QuickStatResponses, 4) :
                /\ Len(rs) >= 1
                /\ \A i \in 1..(Len(rs) - 1) : ~Raises(rs[i])
                /\ Len(rs) < 4 => Raises(rs[Len(rs)])
                /\ Emit(<<HealthRequest>> \o SubSeq(QuickStatRequests, 1, Len(rs)),
                        <<h>> \o rs,
                        [Blank("quick_stats") EXCEPT
                            !.notice = out.notice,
                            !.metrics = PyList([i \in 1..Len(rs) |->
                                                  rs[i].t = "resp" /\ rs[i].status = 200
                                                      /\ rs[i].body.t = "json"])])

---------------------------------------------------------------------------
(* Jobs page *)

CountResponses ==
    {Exc, Resp(500, NoJson), Resp(200, NoJson),
     Resp(200, Json([total_jobs |-> 5]))}

\* tab 1, total job count
JobsJobCount ==
    /\ AtStep("Jobs", "job_count")
    /\ \E r \in CountResponses :
         Emit(<<Get("/api/jobs/count", NoArg, WithDates(NoParams), NoTimeout)>>,
              <<r>>,
              IF Raises(r) THEN Error("job_count")
              ELSE IF r.status = 200
                   THEN [Blank("job_count") EXCEPT !.metrics = PyList(<<TRUE>>)]
                   ELSE Blank("job_count"))

\* tab 1, top occupations: the chart is built without testing df.empty
JobsTopOccupations ==
    /\ AtStep("Jobs", "top_occupations")
    /\ \E top_n \in {10, 20}, r \in ListResponses :
         Emit(<<Get("/api/occupations/demand", NoArg,
                    WithDates([top_n |-> top_n]), NoTimeout)>>,
              <<r>>,
              ListSection("top_occupations", r, FALSE, {"bar"}, AllColumns))

RECURSIVE SumTotals(_)
SumTotals(d) == IF d = <<>> THEN 0 ELSE d[1].total_jobs + SumTotals(Tail(d))

MaxTotal(d) ==
    CHOOSE m \in {d[i].total_jobs : i \in 1..Len(d)} :
        \A i \in 1..Len(d) : d[i].total_jobs <= m

\* the index of the last occurrence of the maximum
IdxMaxLast(d) ==
    CHOOSE i \in 1..Len(d) :
        /\ d[i].total_jobs = MaxTotal(d)
        /\ \A j \in (i + 1)..Len(d) : d[j].total_jobs # MaxTotal(d)

\* Series.idxmax(): the index of the first occurrence of the maximum
IdxMax(d) ==
    CHOOSE i \in 1..Len(d) :
        /\ d[i].total_jobs = MaxTotal(d)
        /\ \A j \in 1..(i - 1) : d[j].total_jobs # MaxTotal(d)

\* the four statistics of a time-series section
Statistics(d) ==
    [total |-> SumTotals(d), peak |-> MaxTotal(d),
     peak_date |-> d[IdxMax(d)].label]

\* a time-series section: charts and statistics when the frame is not empty
TimeSeriesSection(sec, r, charts) ==
    LET o == ListSection(sec, r, TRUE, charts, {})
    IN  IF o.charts = {} THEN o
        ELSE [o EXCEPT !.metrics = Statistics(r.body.v.data)]

\* tab 2, daily time series
JobsTimeSeries ==
    /\ AtStep("Jobs", "time_series")
    /\ \E r \in ListResponses :
         Emit(<<Get("/api/jobs/timeseries", NoArg, WithDates(NoParams),
                    NoTimeout)>>,
              <<r>>,
              TimeSeriesSection("time_series", r, {"daily", "by_source"}))

\* a value of the mom_change column
Finite(num, den) == [t |-> "finite", num |-> num, den |-> den]
NaN == [t |-> "nan"]
Inf == [t |-> "inf"]

\* the change relative to the current month instead of the previous one
PctChangeOfCurrent(d) ==
    [i \in 1..Len(d) |->
        IF i = 1 THEN NaN
        ELSE IF d[i].total_jobs # 0
             THEN Finite((d[i].total_jobs - d[i - 1].total_jobs) * 100,
                         d[i].total_jobs)
             ELSE NaN]

\* df['total_jobs'].pct_change() * 100: row i holds total[i] / total[i-1] - 1,
\* times 100, as the fraction num / den; the first row has no predecessor
\* (NaN); a division by zero gives inf, and 0 / 0 gives NaN
PctChange(d) ==
    [i \in 1..Len(d) |->
        IF i = 1 THEN NaN
        ELSE IF d[i - 1].total_jobs # 0
             THEN Finite((d[i].total_jobs - d[i - 1].total_jobs) * 100,
                         d[i - 1].total_jobs)
             ELSE IF d[i].total_jobs = 0 THEN NaN ELSE Inf]

\* df[1:] with columns month and mom_change
GrowthPoints(d) ==
    LET g == PctChange(d)
    IN  [i \in 1..(Len(d) - 1) |->
            [month |-> d[i + 1].label, mom_change |-> g[i + 1]]]

\* tab 3, monthly trends and month-over-month growth
JobsMonthlyTrends ==
    /\ AtStep("Jobs", "monthly_trends")
    /\ \E r \in ListResponses :
         Emit(<<Get("/api/trends/monthly", NoArg, WithDates(NoParams),
                    NoTimeout)>>,
              <<r>>,
              LET o == ListSection("monthly_trends", r, TRUE, {"monthly"}, {})
              IN  IF o.charts # {} /\ Len(r.body.v.data) > 1
                  THEN [o EXCEPT !.charts = {"monthly", "growth"},
                                 !.growth = PyList(GrowthPoints(r.body.v.data))]
                  ELSE o)

---------------------------------------------------------------------------
(* The lookup steps of the pages *)

\* occupations = get_occupations()
\* if occupations: st.selectbox(options=occupations) else: st.text_input(...)
\* p is the page, deflt the value of the text input
LookupStep(p, fn, args, deflt) ==
    /\ \E mode \in LookupModes :
         /\ CachedCall(p, fn, args, mode)
         /\ resps' = SeqMap(LAMBDA rq : LookupResponse(mode, rq), lastCall'.reqs)
    /\ LET v == lastCall'.value
       IN  IF Truthy(v)
           THEN /\ \E i \in 1..Len(v.v) : selected' = v.v[i]
                /\ out' = [Blank(fn) EXCEPT !.notice = "selectbox"]
           ELSE /\ selected' = deflt
                /\ out' = [Blank(fn) EXCEPT !.notice = "text_input"]
    /\ reqs' = lastCall'.reqs
    /\ pc' = pc + 1
    /\ UNCHANGED <<page, date_range, start_date, end_date, called, crashed>>
    /\ UNCHANGED now

---------------------------------------------------------------------------
(* Occupations page *)

OccupationsGetOccupations ==
    /\ AtStep("Occupations", "get_occupations")
    /\ LookupStep("Occupations", "get_occupations", <<>>, "Software Developer")
    /\ UNCHANGED level

\* tab 1, regional distribution
OccupationsOverview ==
    /\ AtStep("Occupations", "overview")
    /\ \E lvl \in Levels, r \in ListResponses :
         Emit(<<Get("/api/occupations/regions", NoArg,
                    WithDates([esco_label |-> selected, region_level |-> lvl,
                               top_n |-> 15]), NoTimeout)>>,
              <<r>>,
              ListSection("overview", r, TRUE, {"pie", "bar"}, AllColumns))

\* tab 2, daily trend; the monthly trend is requested inside the branch that
\* drew the daily trend, with the same params, in a try block of its own
\* (except: pass)
OccupationsTimeSeries ==
    /\ AtStep("Occupations", "time_series")
    /\ \E r \in ListResponses :
         LET params == WithDates([esco_label |-> selected])
             rq == Get("/api/occupations/timeseries", NoArg, params, NoTimeout)
             o == TimeSeriesSection("time_series", r, {"daily"})
             rqm == Get("/api/trends/monthly/occupations/{}", selected, params,
                        NoTimeout)
         IN  IF o.charts = {}
             THEN Emit(<<rq>>, <<r>>, o)
             ELSE \E m \in ListResponses :
                    Emit(<<rq, rqm>>, <<r, m>>,
                         IF HasData(m) /\ m.status = 200 /\ m.body.v.data # <<>>
                         THEN [o EXCEPT !.charts = {"daily", "monthly"}]
                         ELSE o)

\* tab 3, regional analysis: the table is the whole frame
OccupationsRegional ==
    /\ AtStep("Occupations", "regional")
    /\ \E lvl \in Levels, top_n \in {5, 15}, r \in ListResponses :
         Emit(<<Get("/api/occupations/regions", NoArg,
                    WithDates([esco_label |-> selected, region_level |-> lvl,
                               top_n |-> top_n]), NoTimeout)>>,
              <<r>>,
              ListSection("regional", r, TRUE, {"bar"}, AllColumns))

Metadata == [total_jobs |-> 5, jobs_with_skills |-> 4]

SkillResponses ==
    ListResponses \cup
        {Resp(200, Json([data |-> d, metadata |-> Metadata])) : d \in DataLists}

\* the rendering of /api/skills/by-occupation/detailed of the Skills page:
\* chart and table when the frame is not empty, the metadata metrics when
\* the response has metadata
SkillsRendering(sec, r) ==
    LET o == ListSection(sec, r, TRUE, {"bar"}, AllColumns)
    IN  IF r.t = "exc" \/ r.status # 200 \/ ~HasData(r) THEN o
        ELSE IF r.body.v.data # <<>>
             THEN IF "metadata" \in DOMAIN r.body.v
                  THEN [o EXCEPT !.metrics = PyList(<<TRUE>>)]
                  ELSE o
             ELSE [Blank(sec) EXCEPT !.notice = "info"]

\* the rendering of the Occupations page:
\* if not df.empty and 'metadata' in data: ... else: st.info("No skill data")
SkillsRenderingWithMetadata(sec, r) ==
    LET o == ListSection(sec, r, TRUE, {"bar"}, AllColumns)
    IN  IF r.t = "exc" \/ r.status # 200 \/ ~HasData(r) THEN o
        ELSE IF r.body.v.data # <<>> /\ "metadata" \in DOMAIN r.body.v
             THEN [o EXCEPT !.metrics = PyList(<<TRUE>>)]
             ELSE [Blank(sec) EXCEPT !.notice = "info"]

\* tab 4, required skills
OccupationsSkills ==
    /\ AtStep("Occupations", "skills")
    /\ \E top_n \in {10, 20}, r \in SkillResponses :
         Emit(<<Get("/api/skills/by-occupation/detailed", NoArg,
                    WithDates([esco_label |-> selected, top_n |-> top_n]),
                    NoTimeout)>>,
              <<r>>,
              SkillsRenderingWithMetadata("skills", r))

---------------------------------------------------------------------------
(* Regions page *)

\* region_level radio, then regions = get_regions(level_param)
RegionsGetRegions ==
    /\ AtStep("Regions", "get_regions")
    /\ \E lvl \in Levels :
         /\ level' = lvl
         /\ LookupStep("Regions", "get_regions", <<lvl>>, "Attiki")

\* tab 1, regional comparison
RegionsComparison ==
    /\ AtStep("Regions", "comparison")
    /\ \E top_n \in {5, 15}, r \in ListResponses :
         Emit(<<Get("/api/regions/jobs", NoArg,
                    WithDates([region_level |-> level, top_n |-> top_n]),
                    NoTimeout)>>,
              <<r>>,
              ListSection("comparison", r, TRUE, {"bar", "pie"}, AllColumns))

\* tab 1, job type categories of the region: charts only
RegionsJobTypes ==
    /\ AtStep("Regions", "job_types")
    /\ \E r \in ListResponses :
         Emit(<<Get("/api/regions/{}/jobtypes/categories", selected,
                    WithDates([region_level |-> level]), NoTimeout)>>,
              <<r>>,
              ListSection("job_types", r, TRUE, {"pie", "bar"}, {}))

\* tab 2, top occupations of the region
RegionsOccupations ==
    /\ AtStep("Regions", "occupations")
    /\ \E top_n \in {10, 20}, r \in ListResponses :
         Emit(<<Get("/api/regions/{}/occupations", selected,
                    WithDates([region_level |-> level, top_n |-> top_n]),
                    NoTimeout)>>,
              <<r>>,
              ListSection("occupations", r, TRUE, {"bar"}, AllColumns))

\* tab 3, time series of the region
RegionsTimeSeries ==
    /\ AtStep("Regions", "time_series")
    /\ \E r \in ListResponses :
         Emit(<<Get("/api/regions/{}/timeseries", selected,
                    WithDates([region_level |-> level]), NoTimeout)>>,
              <<r>>,
              TimeSeriesSection("time_series", r, {"daily"}))

RankingColumns == {"rank", "label", "total_jobs"}

\* tab 4, skills of the region
RegionsSkills ==
    /\ AtStep("Regions", "skills")
    /\ \E top_n \in {10, 20}, r \in ListResponses :
         Emit(<<Get("/api/skills/by-region", NoArg,
                    WithDates([region |-> selected, region_level |-> level,
                               top_n |-> top_n]), NoTimeout)>>,
              <<r>>,
              ListSection("skills", r, TRUE, {"bar"}, RankingColumns))

---------------------------------------------------------------------------
(* Skills page *)

\* tab 1, top skills
SkillsTop ==
    /\ AtStep("Skills", "top_skills")
    /\ \E top_n \in {10, 30}, r \in ListResponses :
         Emit(<<Get("/api/skills/top", NoArg, WithDates([top_n |-> top_n]),
                    NoTimeout)>>,
              <<r>>,
              ListSection("top_skills", r, TRUE, {"bar", "treemap"},
                          RankingColumns))

SkillsGetOccupations ==
    /\ AtStep("Skills", "get_occupations")
    /\ LookupStep("Skills", "get_occupations", <<>>, "Software Developer")
    /\ UNCHANGED level

\* tab 2, skills by occupation
SkillsByOccupation ==
    /\ AtStep("Skills", "by_occupation")
    /\ \E top_n \in {10, 20}, r \in SkillResponses :
         Emit(<<Get("/api/skills/by-occupation/detailed", NoArg,
                    WithDates([esco_label |-> selected, top_n |-> top_n]),
                    NoTimeout)>>,
              <<r>>,
              SkillsRendering("by_occupation", r))

\* tab 3: region level radio, then regions = get_regions(level_param_skills)
SkillsGetRegions ==
    /\ AtStep("Skills", "get_regions")
    /\ \E lvl \in Levels :
         /\ level' = lvl
         /\ LookupStep("Skills", "get_regions", <<lvl>>, "Attiki")

\* tab 3, skills by region
SkillsByRegion ==
    /\ AtStep("Skills", "by_region")
    /\ \E top_n \in {10, 20}, r \in ListResponses :
         Emit(<<Get("/api/skills/by-region", NoArg,
                    WithDates([region |-> selected, region_level |-> level,
                               top_n |-> top_n]), NoTimeout)>>,
              <<r>>,
              ListSection("by_region", r, TRUE, {"bar"}, RankingColumns))

---------------------------------------------------------------------------
(* Heatmaps page *)

Labels(kind, n) == [i \in 1..n |-> <<kind, i>>]

\* the matrix with rows of the given lengths; cell (i, j) holds 10 * i + j
MatrixOfShape(lens) ==
    [i \in 1..Len(lens) |-> [j \in 1..lens[i] |-> 10 * i + j]]

Matrices == {MatrixOfShape(l) : l \in SeqsUpTo(1..MaxDim, MaxDim)}

NormalizedOf(m) == [i \in 1..Len(m) |-> [j \in 1..Len(m[i]) |-> m[i][j] + 100]]

Num(x) == [t |-> "num", v |-> x]

Width(m) ==
    CHOOSE w \in {Len(m[i]) : i \in 1..Len(m)} :
        \A i \in 1..Len(m) : Len(m[i]) <= w

ValueError == [t |-> "ValueError"]

\* the matrix is laid out with rows and columns exchanged
DataFrameTransposed(m, index, columns) ==
    IF m = <<>>
    THEN [t |-> "frame", index |-> index, columns |-> columns,
          cells |-> [i \in 1..Len(index) |-> [j \in 1..Len(columns) |-> NaN]]]
    ELSE IF Len(m) # Len(index) \/ Width(m) # Len(columns)
         THEN ValueError
         ELSE [t |-> "frame", index |-> index, columns |-> columns,
               cells |-> [i \in 1..Len(index) |->
                            [j \in 1..Len(columns) |->
                               IF j <= Len(m) /\ i <= Len(m[j])
                               THEN Num(m[j][i]) ELSE NaN]]]

\* pd.DataFrame(matrix, index=index, columns=columns) of a list of lists.
\* An empty list gives a frame of the shape of the labels with every cell
\* missing.  Otherwise the rows are padded to the longest one, and the
\* constructor raises ValueError unless the number of rows is the number of
\* index labels and the longest row has as many cells as there are columns.
DataFrame(m, index, columns) ==
    IF m = <<>>
    THEN [t |-> "frame", index |-> index, columns |-> columns,
          cells |-> [i \in 1..Len(index) |-> [j \in 1..Len(columns) |-> NaN]]]
    ELSE IF Len(m) # Len(index) \/ Width(m) # Len(columns)
         THEN ValueError
         ELSE [t |-> "frame", index |-> index, columns |-> columns,
               cells |-> [i \in 1..Len(index) |->
                            [j \in 1..Len(columns) |->
                               IF j <= Len(m[i]) THEN Num(m[i][j]) ELSE NaN]]]

HeatFailures ==
    {Exc, Resp(500, NoJson), Resp(200, NoJson),
     Resp(200, Json([detail |-> "no data"]))}

OccupationsRegionsBodies ==
    {[matrix |-> m, occupations |-> Labels("occupation", a),
      regions |-> Labels("region", b)] :
        m \in Matrices, a \in 0..MaxDim, b \in 0..MaxDim}
    \cup {[matrix |-> m, occupations |-> Labels("occupation", 1),
           regions |-> Labels("region", 1),
           dimensions |-> [occupations |-> 1, regions |-> 1], count |-> 1,
           data |-> <<Row(1, "a", 30, 60)>>] :
             m \in {MatrixOfShape(<<1>>), MatrixOfShape(<<1, 1>>)}}

\* px.imshow(pivot_df, ...) and the layout of the figure
Heatmap(frame, color, normalized, source) ==
    [frame |-> frame, color |-> color, normalized |-> normalized,
     source |-> source]

\* tab 1: if 'matrix' in data and 'occupations' in data and 'regions' in data
OccupationsRegionsRendering(r) ==
    LET sec == "occupations_regions"
    IN  IF Raises(r) THEN Error(sec)
        ELSE IF r.status # 200 THEN Blank(sec)
        ELSE IF ~({"matrix", "occupations", "regions"} \subseteq DOMAIN r.body.v)
             THEN Blank(sec)
             ELSE LET b == r.body.v
                      df == DataFrame(b.matrix, b.occupations, b.regions)
                  IN  IF df = ValueError THEN Error(sec)
                      ELSE [Blank(sec) EXCEPT
                              !.charts = {"heatmap"},
                              !.heatmap = Heatmap(df, "Job Count", FALSE, "matrix"),
                              !.metrics = IF "dimensions" \in DOMAIN b
                                          THEN PyList(<<TRUE>>) ELSE None,
                              !.table = IF "data" \in DOMAIN b
                                        THEN Table(Project(b.data, AllColumns))
                                        ELSE NoTable]

HeatmapsOccupationsRegions ==
    /\ AtStep("Heatmaps", "occupations_regions")
    /\ \E lvl \in Levels,
          r \in HeatFailures \cup {Resp(200, Json(b)) : b \in OccupationsRegionsBodies} :
         Emit(<<Get("/api/heatmap/occupations-regions", NoArg,
                    WithDates([region_level |-> lvl, top_n_occupations |-> 15,
                               top_n_regions |-> 10]), NoTimeout)>>,
              <<r>>,
              OccupationsRegionsRendering(r))

HeatmapsGetOccupations ==
    /\ AtStep("Heatmaps", "get_occupations")
    /\ LookupStep("Heatmaps", "get_occupations", <<>>, "Software Developer")
    /\ UNCHANGED level

SkillsRegionsBodies ==
    {[skills |-> Labels("skill", a), regions |-> Labels("region", b)] :
        a \in 0..MaxDim, b \in 0..MaxDim}
    \cup {[skills |-> Labels("skill", a), regions |-> Labels("region", b),
           matrix |-> m] :
             m \in Matrices, a \in 0..MaxDim, b \in 0..MaxDim}
    \cup {[skills |-> Labels("skill", a), regions |-> Labels("region", b),
           matrix |-> m, normalized_matrix |-> NormalizedOf(m)] :
             m \in Matrices, a \in 0..MaxDim, b \in 0..MaxDim}

\* matrix_data = data.get('normalized_matrix', data.get('matrix', []))
MatrixSource(b) ==
    IF "normalized_matrix" \in DOMAIN b THEN "normalized_matrix"
    ELSE IF "matrix" \in DOMAIN b THEN "matrix" ELSE "default"

MatrixData(b) ==
    IF "normalized_matrix" \in DOMAIN b THEN b.normalized_matrix
    ELSE IF "matrix" \in DOMAIN b THEN b.matrix ELSE <<>>

\* tab 2: if 'skills' in data and 'regions' in data: ... if matrix_data and
\* skills and regions: heatmap else: st.warning(...) else: st.warning(...)
SkillsRegionsRendering(r, normalize) ==
    LET sec == "skills_regions"
    IN  IF Raises(r) THEN Error(sec)
        ELSE IF r.status # 200 THEN Blank(sec)
        ELSE IF ~({"skills", "regions"} \subseteq DOMAIN r.body.v)
             THEN [Blank(sec) EXCEPT !.notice = "warning"]
             ELSE LET b == r.body.v
                      m == MatrixData(b)
                  IN  IF m = <<>> \/ b.skills = <<>> \/ b.regions = <<>>
                      THEN [Blank(sec) EXCEPT !.notice = "warning"]
                      ELSE LET df == DataFrame(m, b.skills, b.regions)
                           IN  IF df = ValueError THEN Error(sec)
                               ELSE [Blank(sec) EXCEPT
                                       !.charts = {"heatmap"},
                                       !.heatmap =
                                          Heatmap(df,
                                                  IF normalize THEN "Percentage"
                                                  ELSE "Frequency",
                                                  normalize, MatrixSource(b))]

HeatmapsSkillsRegions ==
    /\ AtStep("Heatmaps", "skills_regions")
    /\ \E lvl \in Levels, normalize \in BOOLEAN,
          r \in HeatFailures \cup {Resp(200, Json(b)) : b \in SkillsRegionsBodies} :
         Emit(<<Get("/api/heatmap/skills-regions-occupation", NoArg,
                    WithDates([esco_label |-> selected, region_level |-> lvl,
                               top_n_skills |-> 20, top_n_regions |-> 10,
                               normalize |-> normalize]), NoTimeout)>>,
              <<r>>,
              SkillsRegionsRendering(r, normalize))

---------------------------------------------------------------------------
(* Spec: the runs of the pages *)

NoRun ==
    /\ page = "Home"
    /\ pc = 0
    /\ date_range = None
    /\ start_date = None
    /\ end_date = None
    /\ selected = ""
    /\ level = ""
    /\ reqs = <<>>
    /\ resps = <<>>
    /\ out = Blank("")
    /\ called = {}
    /\ crashed = FALSE

EmptyCache ==
    /\ now = 0
    /\ cache = [k \in CacheKeys |-> Absent]
    /\ nfetch = 0
    /\ lastCall = NoCall

Init ==
    /\ EmptyCache
    /\ NoRun

Next ==
    \/ StartRun
    \/ DateFilter
    \/ HomeSidebar
    \/ HomeQuickStats
    \/ JobsJobCount
    \/ JobsTopOccupations
    \/ JobsTimeSeries
    \/ JobsMonthlyTrends
    \/ OccupationsGetOccupations
    \/ OccupationsOverview
    \/ OccupationsTimeSeries
    \/ OccupationsRegional
    \/ OccupationsSkills
    \/ RegionsGetRegions
    \/ RegionsComparison
    \/ RegionsJobTypes
    \/ RegionsOccupations
    \/ RegionsTimeSeries
    \/ RegionsSkills
    \/ SkillsTop
    \/ SkillsGetOccupations
    \/ SkillsByOccupation
    \/ SkillsGetRegions
    \/ SkillsByRegion
    \/ HeatmapsOccupationsRegions
    \/ HeatmapsGetOccupations
    \/ HeatmapsSkillsRegions

Spec == Init /\ [][Next]_vars

---------------------------------------------------------------------------
(* SpecCache: the calls of the cached functions, and the clock *)

Tick ==
    /\ now + HalfHour <= MaxTicks * HalfHour
    /\ now' = now + HalfHour
    /\ lastCall' = NoCall
    /\ UNCHANGED <<cache, nfetch>>
    /\ UNCHANGED runVars

\* Occupations page: occupations = get_occupations()
CallOccupationsGetOccupations ==
    /\ CanCall("Occupations", "get_occupations", <<>>)
    /\ \E mode \in LookupModes :
         CachedCall("Occupations", "get_occupations", <<>>, mode)
    /\ UNCHANGED now
    /\ UNCHANGED runVars

\* Regions page: regions = get_regions(level_param)
CallRegionsGetRegions ==
    /\ \E lvl \in Levels, mode \in LookupModes :
         /\ CanCall("Regions", "get_regions", <<lvl>>)
         /\ CachedCall("Regions", "get_regions", <<lvl>>, mode)
    /\ UNCHANGED now
    /\ UNCHANGED runVars

\* Skills page, tab 2: occupations = get_occupations()
CallSkillsGetOccupations ==
    /\ CanCall("Skills", "get_occupations", <<>>)
    /\ \E mode \in LookupModes :
         CachedCall("Skills", "get_occupations", <<>>, mode)
    /\ UNCHANGED now
    /\ UNCHANGED runVars

\* Skills page, tab 3: regions = get_regions(level_param_skills)
CallSkillsGetRegions ==
    /\ \E lvl \in Levels, mode \in LookupModes :
         /\ CanCall("Skills", "get_regions", <<lvl>>)
         /\ CachedCall("Skills", "get_regions", <<lvl>>, mode)
    /\ UNCHANGED now
    /\ UNCHANGED runVars

\* Heatmaps page, tab 2: occupations = get_occupations()
CallHeatmapsGetOccupations ==
    /\ CanCall("Heatmaps", "get_occupations", <<>>)
    /\ \E mode \in LookupModes :
         CachedCall("Heatmaps", "get_occupations", <<>>, mode)
    /\ UNCHANGED now
    /\ UNCHANGED runVars

InitCache ==
    /\ EmptyCache
    /\ NoRun

NextCache ==
    \/ Tick
    \/ CallOccupationsGetOccupations
    \/ CallRegionsGetRegions
    \/ CallSkillsGetOccupations
    \/ CallSkillsGetRegions
    \/ CallHeatmapsGetOccupations

SpecCache == InitCache /\ [][NextCache]_vars

---------------------------------------------------------------------------
(* C1, C2: the lookup caches *)

\* the cache entry that the call fn(a) of page p is served from
Served(p, fn, a, c) == c[<<FuncKey(p, fn), a>>]

\* C1: the list a call of get_occupations or get_regions hands to the page
\* run was fetched at most TTL seconds before the call: a cached value is
\* returned only while younger than TTL, and a call that finds an entry of
\* age TTL or more issues a new GET and returns what that GET fetched.
C1_FetchedWithinTTL ==
    lastCall.page # "" =>
        /\ lastCall.at - lastCall.fetchedAt <= TTL
        /\ lastCall.hit => lastCall.reqs = <<>>
        /\ ~lastCall.hit =>
             /\ lastCall.fetchedAt = lastCall.at
             /\ Len(lastCall.reqs) = 1
             /\ lastCall.reqs[1].method = "GET"
        /\ LET e == cache[<<FuncKey(lastCall.page, lastCall.fn), lastCall.args>>]
           IN  e.t = "entry" /\ e.value = lastCall.value
                 /\ e.storedAt = lastCall.fetchedAt

\* C1 witness: a call found an expired entry and fetched again
C1_Witness_RefetchAfterExpiry ==
    /\ lastCall.page # ""
    /\ lastCall.expired
    /\ ~lastCall.hit
    /\ lastCall.at >= TTL

\* C2 as stated: a call on one page leaves the lists of every other page
\* unchanged.
C2_Original_IndependentPerPage ==
    [][(lastCall' # lastCall /\ cache' # cache) =>
          \A cl \in LookupCalls : \A a \in ArgsOf(cl[2]) :
             cl[1] # lastCall'.page =>
                Served(cl[1], cl[2], a, cache') = Served(cl[1], cl[2], a, cache)]_vars

SharedOccupationsPages == {"Skills", "Heatmaps", "JobTypes"}

\* C2 amended: a call on one page leaves the lists of every other page
\* unchanged, except that the Skills, Heatmaps and Job Types pages serve one
\* and the same cached occupations list (their get_occupations definitions
\* are the same text, hence one cache entry): among these three a fetch on
\* one page replaces the list of the others (the Job Types run stops in its
\* date filter before it calls get_occupations, so in effect the list is
\* shared by Skills and Heatmaps).  The regions lists, and the occupations
\* list of the Occupations page, are private to their page.
C2_IndependentUnlessSameText ==
    [][(lastCall' # lastCall /\ cache' # cache) =>
          \A cl \in LookupCalls : \A a \in ArgsOf(cl[2]) :
             IF /\ cl[2] = "get_occupations"
                /\ lastCall'.fn = "get_occupations"
                /\ {cl[1], lastCall'.page} \subseteq SharedOccupationsPages
             THEN /\ Served(cl[1], cl[2], a, cache').value = lastCall'.value
                  /\ Served(cl[1], cl[2], a, cache').storedAt = lastCall'.at
             ELSE cl[1] # lastCall'.page =>
                     Served(cl[1], cl[2], a, cache')
                         = Served(cl[1], cl[2], a, cache)]_vars

\* C2 witness: the Occupations page and the Skills page hold occupations
\* lists fetched at different times
C2_Witness_SeparateEntries ==
    LET a == cache[<<FuncKey("Occupations", "get_occupations"), <<>>>>]
        b == cache[<<FuncKey("Skills", "get_occupations"), <<>>>>]
    IN  /\ a.t = "entry"
        /\ b.t = "entry"
        /\ a.storedAt # b.storedAt
        /\ lastCall.page = "Skills"
        /\ ~lastCall.hit

---------------------------------------------------------------------------
(* C4: the endpoints of a page *)

\* the endpoints the sections of each page request
PageEndpoints(p) ==
    CASE p = "Home" -> {"/health", "/api/jobs/count", "/api/occupations/demand",
                        "/api/regions/jobs", "/api/skills/top"}
      [] p = "Jobs" -> {"/api/jobs/count", "/api/occupations/demand",
                        "/api/jobs/timeseries", "/api/trends/monthly"}
      [] p = "Occupations" -> {"/api/occupations/regions",
                               "/api/occupations/timeseries",
                               "/api/trends/monthly/occupations/{}",
                               "/api/skills/by-occupation/detailed"}
      [] p = "Regions" -> {"/api/regions/jobs",
                           "/api/regions/{}/jobtypes/categories",
                           "/api/regions/{}/occupations",
                           "/api/regions/{}/timeseries",
                           "/api/skills/by-region"}
      [] p = "Skills" -> {"/api/skills/top",
                          "/api/skills/by-occupation/detailed",
                          "/api/skills/by-region"}
      [] p = "Heatmaps" -> {"/api/heatmap/occupations-regions",
                            "/api/heatmap/skills-regions-occupation"}
      [] p = "JobTypes" -> {"/api/jobtypes/distribution",
                            "/api/jobtypes/categories",
                            "/api/occupations/jobtypes/categories"}

\* the requests that are issued only after a response was looked at
ConditionalEndpoints(p) ==
    CASE p = "Home" -> {"/api/jobs/count", "/api/occupations/demand",
                        "/api/regions/jobs", "/api/skills/top"}
      [] p = "Occupations" -> {"/api/trends/monthly/occupations/{}"}
      [] OTHER -> {}

RunEnded == pc # 0 /\ pc = Done(page)

IsOk(r) == r.t = "resp" /\ r.status = 200

\* the response is a 200 whose JSON has a non-empty data list
HasRows(r) ==
    /\ r.t = "resp"
    /\ r.status = 200
    /\ r.body.t = "json"
    /\ "data" \in DOMAIN r.body.v
    /\ r.body.v.data # <<>>

---------------------------------------------------------------------------
(* C5, C6, C7: the date range and the requests *)

CompletePair(v) == v.t = "tuple" /\ Len(v.v) = 2

CarriesDates(rq) ==
    "start_date" \in DOMAIN rq.params \/ "end_date" \in DOMAIN rq.params

\* C5: on every page with a date filter, when the selection is not a
\* complete (start, end) pair, start_date and end_date are both None, the
\* run goes on, and no request of the run carries start_date or end_date.
C5_IncompleteRangeUnsetsDates ==
    (page \in DatePages /\ date_range # None /\ ~CompletePair(date_range)) =>
        /\ ~crashed
        /\ start_date = None
        /\ end_date = None
        /\ \A i \in 1..Len(reqs) : ~CarriesDates(reqs[i])

\* YYYY-MM-DD of the two dates of the model
IsoDate(d) ==
    IF d = D1
    THEN <<"2", "0", "2", "5", "-", "0", "5", "-", "0", "1">>
    ELSE <<"2", "0", "2", "5", "-", "1", "1", "-", "2", "4">>

\* C6: in every request of a run start_date and end_date are both present
\* or both absent; when present the selection is a complete pair, start_date
\* is its first date and end_date its second, each formatted YYYY-MM-DD (so
\* every request of the run that carries dates carries the same pair).
C6_DatePairInEveryRequest ==
    \A i \in 1..Len(reqs) :
        LET ps == reqs[i].params
        IN  /\ "start_date" \in DOMAIN ps <=> "end_date" \in DOMAIN ps
            /\ "start_date" \in DOMAIN ps =>
                  /\ date_range.t = "tuple"
                  /\ Len(date_range.v) = 2
                  /\ ps.start_date = IsoDate(date_range.v[1])
                  /\ ps.end_date = IsoDate(date_range.v[2])

\* C6 witness: a heatmap request carries the selected pair
C6_Witness_DatesSent ==
    /\ page = "Heatmaps"
    /\ out.section = "skills_regions"
    /\ Len(reqs) = 1
    /\ "start_date" \in DOMAIN reqs[1].params
    /\ reqs[1].params.start_date # reqs[1].params.end_date

\* C7: every request a page issues, the lookup and health requests included,
\* is an HTTP GET.
C7_OnlyGet ==
    /\ \A i \in 1..Len(reqs) : reqs[i].method = "GET"
    /\ \A i \in 1..Len(lastCall.reqs) : lastCall.reqs[i].method = "GET"

\* C7 witness: the Skills x Regions request after a lookup fetch in the run
C7_Witness_RequestsIssued ==
    /\ page = "Heatmaps"
    /\ out.section = "skills_regions"
    /\ Len(reqs) = 1
    /\ nfetch > 0

---------------------------------------------------------------------------
(* C8: the table of a data section *)

\* the sections that show the data list of their response as a table
TableSections ==
    {<<"Jobs", "top_occupations">>, <<"Occupations", "overview">>,
     <<"Occupations", "regional">>, <<"Occupations", "skills">>,
     <<"Regions", "comparison">>, <<"Regions", "occupations">>,
     <<"Regions", "skills">>, <<"Skills", "top_skills">>,
     <<"Skills", "by_occupation">>, <<"Skills", "by_region">>}

\* C8: in every section with a table, a 200 response with a data list puts
\* every item of the list in the table, in response order (nothing to show
\* for an empty list), and a response of any other status renders neither
\* table nor chart nor error message.
C8_TableIffSuccess ==
    (<<page, out.section>> \in TableSections /\ Len(resps) = 1) =>
        LET r == resps[1]
        IN  /\ HasRows(r) =>
                 /\ out.table.t = "table"
                 /\ Len(out.table.rows) = Len(r.body.v.data)
                 /\ \A i \in 1..Len(r.body.v.data) :
                       \A c \in DOMAIN out.table.rows[i] :
                          out.table.rows[i][c] = r.body.v.data[i][c]
            /\ (r.t = "resp" /\ r.status # 200) =>
                 /\ out.table = NoTable
                 /\ out.charts = {}
                 /\ ~out.error
                 /\ out.notice = "none"

---------------------------------------------------------------------------
(* C9: the heatmap pivot *)

HeatmapSections == {"occupations_regions", "skills_regions"}

\* the label lists and the matrix a heatmap section takes from its response
RowLabels(b) == IF "occupations" \in DOMAIN b THEN b.occupations ELSE b.skills

PlottedMatrix(b) ==
    IF "normalized_matrix" \in DOMAIN b THEN b.normalized_matrix
    ELSE IF "matrix" \in DOMAIN b THEN b.matrix ELSE <<>>

PivotKeys(sec) ==
    IF sec = "occupations_regions" THEN {"matrix", "occupations", "regions"}
    ELSE {"skills", "regions"}

\* the last step was a heatmap section that got a 200 with the keys it needs
PivotCase ==
    /\ page = "Heatmaps"
    /\ out.section \in HeatmapSections
    /\ Len(resps) = 1
    /\ resps[1].t = "resp"
    /\ resps[1].status = 200
    /\ resps[1].body.t = "json"
    /\ PivotKeys(out.section) \subseteq DOMAIN resps[1].body.v

\* every row of the matrix has one cell per region, and there is one row per
\* occupation (or skill)
DimensionsMatch(m, rows, cols) ==
    /\ Len(m) = Len(rows)
    /\ \A i \in 1..Len(m) : Len(m[i]) = Len(cols)

\* the heatmap shows cell (i, j) = m[i][j] under the labels rows and cols
Plots(h, m, rows, cols) ==
    /\ h # None
    /\ h.frame.index = rows
    /\ h.frame.columns = cols
    /\ \A i \in 1..Len(rows) : \A j \in 1..Len(cols) :
          IF i <= Len(m) /\ j <= Len(m[i])
          THEN h.frame.cells[i][j] = [t |-> "num", v |-> m[i][j]]
          ELSE h.frame.cells[i][j] = [t |-> "nan"]

\* C9 as stated: the heatmap shows the matrix cell by cell when its
\* dimensions match the label lists, and otherwise no heatmap is drawn and
\* the section shows an error.
C9_Original_PivotOrError ==
    PivotCase =>
        LET b == resps[1].body.v
            m == PlottedMatrix(b)
        IN  IF DimensionsMatch(m, RowLabels(b), b.regions)
            THEN m # <<>> => Plots(out.heatmap, m, RowLabels(b), b.regions)
            ELSE out.heatmap = None /\ out.error

LongestRow(m) ==
    CHOOSE w \in {Len(m[i]) : i \in 1..Len(m)} : \A i \in 1..Len(m) : Len(m[i]) <= w

\* C9 amended: for a non-empty matrix the heatmap is drawn exactly when the
\* matrix has one row per occupation (or skill) and its longest row has one
\* cell per region; cell (i, j) then shows matrix[i][j] under the i-th
\* occupation/skill and the j-th region, a row shorter than the longest one
\* being filled with missing cells; with any other dimensions no heatmap is
\* drawn and the section shows an error.  An empty matrix is not reported as
\* an error: Skills x Regions shows the warning "No data available" without
\* a heatmap (as it does when a label list is empty), and Occupations x
\* Regions draws the label lists with every cell missing.
C9_PivotOrErrorNonEmpty ==
    PivotCase =>
        LET b == resps[1].body.v
            m == PlottedMatrix(b)
            rows == RowLabels(b)
            guarded == out.section = "skills_regions"
        IN  IF m = <<>> \/ (guarded /\ (rows = <<>> \/ b.regions = <<>>))
            THEN /\ ~out.error
                 /\ guarded => (out.heatmap = None /\ out.notice = "warning")
                 /\ ~guarded => Plots(out.heatmap, m, rows, b.regions)
            ELSE IF Len(m) = Len(rows) /\ LongestRow(m) = Len(b.regions)
                 THEN /\ Plots(out.heatmap, m, rows, b.regions)
                      /\ ~out.error
                 ELSE out.heatmap = None /\ out.error

\* C9 witness: a 2 x 2 matrix is on the Occupations x Regions heatmap
C9_Witness_MatrixPlotted ==
    /\ PivotCase
    /\ out.section = "occupations_regions"
    /\ out.heatmap # None
    /\ Len(resps[1].body.v.matrix) = 2
    /\ Len(out.heatmap.frame.columns) = 2
    /\ out.heatmap.frame.cells[1][2] = [t |-> "num", v |-> 12]
    /\ out.heatmap.frame.cells[2][1] = [t |-> "num", v |-> 21]

---------------------------------------------------------------------------
(* C10: month-over-month growth *)

MonthlyCase ==
    /\ page = "Jobs"
    /\ out.section = "monthly_trends"
    /\ Len(resps) = 1
    /\ HasRows(resps[1])

\* the point is the fraction (cur - prev) / prev * 100
IsGrowth(pt, prev, cur) ==
    /\ pt.t = "finite"
    /\ pt.den # 0
    /\ prev # 0
    /\ pt.num * prev = (cur - prev) * 100 * pt.den

\* C10 as stated: the growth chart is drawn only for two months or more, it
\* has one point per month except the first, and every point is the finite
\* value (total[i] - total[i-1]) / total[i-1] * 100.
C10_Original_FiniteGrowth ==
    MonthlyCase =>
        LET d == resps[1].body.v.data
        IN  "growth" \in out.charts =>
                /\ Len(d) >= 2
                /\ Len(out.growth.v) = Len(d) - 1
                /\ \A i \in 2..Len(d) :
                      /\ out.growth.v[i - 1].month = d[i].label
                      /\ IsGrowth(out.growth.v[i - 1].mom_change,
                                  d[i - 1].total_jobs, d[i].total_jobs)

\* C10 amended: the growth chart is drawn only for two months or more and
\* has one point per month except the first; the point of month i is
\* (total[i] - total[i-1]) / total[i-1] * 100 when total[i-1] is not zero,
\* and is not a finite value when total[i-1] is zero (infinite, or NaN when
\* total[i] is zero as well).
C10_GrowthUnlessZeroMonth ==
    MonthlyCase =>
        LET d == resps[1].body.v.data
        IN  /\ "growth" \in out.charts <=> Len(d) >= 2
            /\ "growth" \in out.charts =>
                /\ Len(out.growth.v) = Len(d) - 1
                /\ \A i \in 2..Len(d) :
                      LET pt == out.growth.v[i - 1].mom_change
                      IN  /\ out.growth.v[i - 1].month = d[i].label
                          /\ IF d[i - 1].total_jobs # 0
                             THEN IsGrowth(pt, d[i - 1].total_jobs, d[i].total_jobs)
                             ELSE /\ pt.t # "finite"
                                  /\ pt.t = "nan" <=> d[i].total_jobs = 0

\* C10 witness: a month that lost all of the jobs of the month before
C10_Witness_GrowthDrawn ==
    /\ MonthlyCase
    /\ "growth" \in out.charts
    /\ Len(out.growth.v) = 1
    /\ out.growth.v[1].mom_change = [t |-> "finite", num |-> -3000, den |-> 30]

---------------------------------------------------------------------------
(* C11: the statistics of a time series *)

TimeSeriesPages == {"Jobs", "Occupations", "Regions"}

TimeSeriesCase ==
    /\ page \in TimeSeriesPages
    /\ out.section = "time_series"
    /\ Len(resps) >= 1

\* the sum of the counts of the rows
SumOfCounts(d) ==
    LET S[n \in 0..Len(d)] == IF n = 0 THEN 0 ELSE S[n - 1] + d[n].total_jobs
    IN  S[Len(d)]

\* C11: on the time-series tabs of the Jobs, Occupations and Regions pages
\* the statistics of a 200 response with rows are computed from its rows:
\* Total is the sum of the counts, Peak the largest count and Peak Date the
\* date of the first row that has the largest count; without rows no
\* statistics are shown.
C11_StatisticsFromRows ==
    TimeSeriesCase =>
        IF HasRows(resps[1])
        THEN LET d == resps[1].body.v.data
                 st == out.metrics
             IN  /\ st.total = SumOfCounts(d)
                 /\ \A i \in 1..Len(d) : d[i].total_jobs <= st.peak
                 /\ \E i \in 1..Len(d) :
                       /\ d[i].total_jobs = st.peak
                       /\ \A j \in 1..(i - 1) : d[j].total_jobs < st.peak
                       /\ st.peak_date = d[i].label
        ELSE out.metrics = None

\* C11 witness: two days share the largest count on the Regions page
C11_Witness_TiedPeak ==
    /\ TimeSeriesCase
    /\ page = "Regions"
    /\ HasRows(resps[1])
    /\ Len(resps[1].body.v.data) = 2
    /\ resps[1].body.v.data[1].total_jobs = resps[1].body.v.data[2].total_jobs
    /\ out.metrics.peak_date = resps[1].body.v.data[1].label

---------------------------------------------------------------------------
(* C12: a failed lookup fetch *)

\* what a lookup hands to the page when its fetch failed: None or []
FailedValue(v) == v.t = "None" \/ (v.t = "list" /\ v.v = <<>>)

\* C12: a failed lookup fetch is cached like any other and for no longer.
\* A call that finds the entry of a failed fetch younger than 3600 seconds
\* returns the cached failure (the page shows the free-text fallback) and
\* sends no request; a call that finds it 3600 seconds old or older sends
\* the GET again, and when that GET is answered 200 with data items the call
\* returns their labels (the page offers the selectbox).
C12_FailedFetchExpires ==
    [][lastCall'.page # "" =>
          LET k == <<FuncKey(lastCall'.page, lastCall'.fn), lastCall'.args>>
              e == cache[k]
          IN  (e.t = "entry" /\ FailedValue(e.value)) =>
                 IF now < e.storedAt + 3600
                 THEN /\ lastCall'.hit
                      /\ lastCall'.reqs = <<>>
                      /\ lastCall'.value = e.value
                      /\ cache' = cache
                 ELSE /\ ~lastCall'.hit
                      /\ Len(lastCall'.reqs) = 1
                      /\ cache'[k].storedAt = now
                      /\ HasRows(lastCall'.resps[1]) =>
                            /\ lastCall'.value.t = "list"
                            /\ Len(lastCall'.value.v)
                                  = Len(lastCall'.resps[1].body.v.data)
                            /\ \A i \in 1..Len(lastCall'.value.v) :
                                  lastCall'.value.v[i]
                                     = lastCall'.resps[1].body.v.data[i].label]_vars

\* C12 witness: half an hour after a fetch that got a non-200 status, the
\* call returns the cached None without a request
C12_Witness_FailureServedFromCache ==
    /\ lastCall.page # ""
    /\ lastCall.hit
    /\ lastCall.value = None
    /\ lastCall.reqs = <<>>
    /\ lastCall.at = lastCall.fetchedAt + 1800

---------------------------------------------------------------------------
(* C13: a section that raises *)

LookupSections == {"get_occupations", "get_regions"}

\* the steps that request data and render it inside a try block
TrySections ==
    {"quick_stats", "job_count", "top_occupations", "time_series",
     "monthly_trends", "overview", "regional", "skills", "comparison",
     "job_types", "occupations", "top_skills", "by_occupation", "by_region",
     "occupations_regions", "skills_regions"}

\* response i of the last step raised: the request did, or response.json()
\* did on a 200 whose body is not JSON
RaisedAt(i) ==
    \/ resps[i].t = "exc"
    \/ (resps[i].t = "resp" /\ resps[i].status = 200 /\ resps[i].body.t # "json")

\* the requests of a section whose exception the section answers for (on the
\* home page the first request of the quick stats is the health probe, which
\* check_api_connection answers for)
OwnRequests ==
    IF page = "Home" THEN 2..Len(reqs) ELSE 1..Len(reqs)

SilentSection ==
    \/ page = "Home" /\ out.section = "quick_stats"
    \/ page = "Occupations" /\ out.section = "time_series" /\ Len(reqs) = 2
          /\ ~RaisedAt(1)

---------------------------------------------------------------------------
(* C14: the value of a lookup *)

\* C14: get_occupations and get_regions return a list in every case: the
\* labels of the data items of a 200 response, and the empty list on every
\* failure, whether the request raised or the status was not 200.
C14_LookupReturnsList ==
    lastCall.page # "" =>
        /\ lastCall.value.t = "list"
        /\ ~lastCall.hit =>
              IF lastCall.resps[1].t = "resp" /\ lastCall.resps[1].status = 200
                    /\ lastCall.resps[1].body.t = "json"
                    /\ "data" \in DOMAIN lastCall.resps[1].body.v
              THEN /\ Len(lastCall.value.v) = Len(lastCall.resps[1].body.v.data)
                   /\ \A i \in 1..Len(lastCall.value.v) :
                         lastCall.value.v[i] = lastCall.resps[1].body.v.data[i].label
              ELSE lastCall.value.v = <<>>

---------------------------------------------------------------------------
(* C15: the sidebar status and the quick stats of the home page *)

\* C15: on the home page the quick-stat requests are attempted exactly in
\* the runs whose sidebar shows Connected: no run shows Disconnected
\* together with quick stats, or Connected without the quick-stat requests.
C15_QuickStatsIffConnected ==
    (page = "Home" /\ out.section = "quick_stats") =>
        /\ out.notice \in {"Connected", "Disconnected"}
        /\ out.notice = "Connected" <=> Len(reqs) > 1
        /\ out.notice = "Disconnected" => out.metrics = None

---------------------------------------------------------------------------
(* C16: the Normalize checkbox *)

\* C16: on the Skills x Regions heatmap the matrix plotted agrees with the
\* Normalize checkbox: ticked, the normalized matrix is plotted, labelled
\* Percentage and titled (Normalized %); not ticked, the raw frequency
\* matrix is plotted, labelled Frequency.
C16_MatrixAgreesWithCheckbox ==
    (PivotCase /\ out.section = "skills_regions" /\ out.heatmap # None) =>
        LET b == resps[1].body.v
            h == out.heatmap
        IN  IF reqs[1].params.normalize
            THEN /\ h.color = "Percentage"
                 /\ h.normalized
                 /\ h.source = "normalized_matrix"
                 /\ h.frame.cells[1][1] = [t |-> "num", v |-> b.normalized_matrix[1][1]]
            ELSE /\ h.color = "Frequency"
                 /\ ~h.normalized
                 /\ h.source = "matrix"
                 /\ h.frame.cells[1][1] = [t |-> "num", v |-> b.matrix[1][1]]

---------------------------------------------------------------------------
(* C17: the two renderings of /api/skills/by-occupation/detailed *)

SkillsByOccupationSections ==
    {<<"Occupations", "skills">>, <<"Skills", "by_occupation">>}

\* C17: the Skills tab of the Occupations page and the Skills by Occupation
\* tab of the Skills page render a 200 response of
\* /api/skills/by-occupation/detailed alike: chart and table exactly when
\* its data list is not empty, the notice "No skill data available for this
\* occupation" exactly when it is empty, with or without a metadata field.
C17_RenderingsAgree ==
    (/\ <<page, out.section>> \in SkillsByOccupationSections
     /\ Len(resps) = 1
     /\ resps[1].t = "resp"
     /\ resps[1].status = 200
     /\ resps[1].body.t = "json"
     /\ "data" \in DOMAIN resps[1].body.v) =>
        LET d == resps[1].body.v.data
        IN  /\ d # <<>> <=> (out.charts # {} /\ out.table.t = "table")
            /\ d = <<>> <=> out.notice = "info"

---------------------------------------------------------------------------
(* C18: an empty data list *)

\* the first response of the last step is a 200 whose data list is empty
EmptyData ==
    /\ out.section \in TrySections
    /\ Len(resps) >= 1
    /\ resps[1].t = "resp"
    /\ resps[1].status = 200
    /\ resps[1].body.t = "json"
    /\ "data" \in DOMAIN resps[1].body.v
    /\ resps[1].body.v.data = <<>>

\* C18: in every data section a 200 response whose data list is empty gives
\* no chart and no error message: the section stays blank or shows a
\* "no data" notice.
C18_EmptyDataNoError ==
    EmptyData =>
        /\ ~out.error
        /\ out.charts = {}
        /\ out.notice \in {"none", "info", "warning"}

---------------------------------------------------------------------------
(* C19: the regions cache is keyed by region level *)

\* the regions the backend lists at level lvl
RegionLabels(lvl) ==
    {RegionRows(lvl)[i].label : i \in 1..Len(RegionRows(lvl))}

\* C19: whatever levels were asked for before and whatever expired,
\* get_regions(level) returns the value of the entry of its own level, which
\* was fetched with region_level = level, so the options of the selectbox
\* are regions of the selected level and never of the other one.
C19_RegionsOfSelectedLevel ==
    lastCall.fn = "get_regions" =>
        LET lvl == lastCall.args[1]
            e == cache[<<FuncKey(lastCall.page, "get_regions"), <<lvl>>>>]
        IN  /\ e.t = "entry"
            /\ e.value = lastCall.value
            /\ e.storedAt = lastCall.fetchedAt
            /\ e.req.endpoint = "/api/regions/jobs"
            /\ e.req.params.region_level = lvl
            /\ lastCall.value.t = "list" =>
                 \A i \in 1..Len(lastCall.value.v) :
                    /\ lastCall.value.v[i] \in RegionLabels(lvl)
                    /\ \A other \in Levels \ {lvl} :
                          lastCall.value.v[i] \notin RegionLabels(other)

\* get_regions("regional_unit") is served from the cache while the entry of
\* "nuts2" of the same function holds the other list
C19_Witness_LevelSwitched ==
    /\ lastCall.fn = "get_regions"
    /\ lastCall.args = <<"regional_unit">>
    /\ lastCall.hit
    /\ lastCall.value.t = "list"
    /\ lastCall.value.v # <<>>
    /\ LET o == cache[<<FuncKey(lastCall.page, "get_regions"), <<"nuts2">>>>]
       IN  /\ o.t = "entry"
           /\ o.value.t = "list"
           /\ o.value.v # <<>>
           /\ o.value # lastCall.value

---------------------------------------------------------------------------
(* C20: the lookup requests do not depend on the filters of the page *)

\* the request a lookup function sends: the parameters are the literals of
\* the function body and, for get_regions, its argument
IsLookupRequest(rq, fn, args) ==
    /\ rq.method = "GET"
    /\ IF fn = "get_regions"
       THEN /\ rq.endpoint = "/api/regions/jobs"
            /\ Len(args) = 1
            /\ rq.params = [region_level |-> args[1], top_n |-> 100]
       ELSE /\ rq.endpoint = "/api/occupations/demand"
            /\ args = <<>>
            /\ rq.params = [top_n |-> 200]

\* C20: get_occupations requests /api/occupations/demand with top_n = 200
\* only and get_regions requests /api/regions/jobs with region_level and
\* top_n = 100 only, whatever the date range of the run: no lookup request
\* and no cached entry carries start_date or end_date, and an entry is
\* filed under the function and its arguments alone.
C20_LookupIgnoresFilters ==
    /\ out.section \in LookupSections =>
         /\ lastCall.fn = out.section
         /\ Len(reqs) <= 1
         /\ \A i \in 1..Len(reqs) :
               /\ IsLookupRequest(reqs[i], lastCall.fn, lastCall.args)
               /\ "start_date" \notin DOMAIN reqs[i].params
               /\ "end_date" \notin DOMAIN reqs[i].params
    /\ \A k \in DOMAIN cache :
         cache[k].t = "entry" =>
            /\ IsLookupRequest(cache[k].req, k[1][2], k[2])
            /\ DOMAIN cache[k].req.params \subseteq {"region_level", "top_n"}

\* a run with a complete date range fetched a lookup list
C20_Witness_LookupWithDateRange ==
    /\ out.section \in LookupSections
    /\ start_date.t = "str"
    /\ end_date.t = "str"
    /\ Len(reqs) = 1
    /\ ~lastCall.hit
    /\ lastCall.value.t = "list"
    /\ lastCall.value.v # <<>>

---------------------------------------------------------------------------
(* C21: every request is bounded in time *)

\* requests.get(..., timeout=n): the call raises after n seconds without an
\* answer; without the argument it waits for the server for ever
Bounded(rq) == rq.timeout # None /\ rq.timeout.t = "num" /\ rq.timeout.v > 0

\* C21: check_api_connection asks GET /health with a timeout of 5 seconds
\* and gives True exactly on status 200, False on any other status and on
\* any exception; every other request a page issues is bounded by a timeout
\* as well, so no step of a page run waits for the backend for ever.
C21_EveryRequestBounded ==
    /\ out.section = "sidebar" =>
         /\ reqs = <<[method |-> "GET", endpoint |-> "/health", arg |-> "",
                      params |-> <<>>, timeout |-> [t |-> "num", v |-> 5]]>>
         /\ out.notice = "Connected" <=>
               (resps[1].t = "resp" /\ resps[1].status = 200)
         /\ out.notice \in {"Connected", "Disconnected"}
         /\ ~out.error
    /\ \A i \in 1..Len(reqs) : Bounded(reqs[i])

====
